---- MODULE Spec2Model ----
(***************************************************************************)
(* Model of scripts/scan-java-files.js: the JavaFileScanner class.         *)
(*                                                                         *)
(* A string is modelled as the sequence of its '.'-separated components,   *)
(* so "pkgA.Service" is <<"pkgA", "Service">> and an identifier image is a *)
(* one-element sequence.  a.split('.') is then the sequence itself and     *)
(* parts.join('.') the concatenation of the parts.                         *)
(*                                                                         *)
(* A file path is modelled by its rank in the lexicographic order of the   *)
(* paths, so path 1 < path 2 < ... is the order matchedFiles.sort() uses.  *)
(*                                                                         *)
(* The java-parser library is not part of the repository.  The syntax tree *)
(* is modelled with exactly the children the scanner reads.  How the       *)
(* library lays out a dotted name inside a typeName node is not visible in *)
(* the repository, so astShape ranges over the three layouts that are      *)
(* consistent with the children the scanner reads.                         *)
(***************************************************************************)
EXTENDS Integers, Sequences, FiniteSets, TLC

MaxFiles == 3
MaxDepth == MaxFiles + 2

VARIABLES
    javaFiles,          \* result of findJavaFiles: the walk order of the paths
    fileSrc,            \* path -> what is written in the file
    astShape,           \* layout of a dotted name in a typeName node
    config,             \* the configuration document
    parsedFiles,        \* this.parsedFiles: keys of the AST cache
    parseCount,         \* path -> number of times parse(code) was invoked
    matchedFiles,       \* scan(): matchedFiles
    files,              \* scan(): the returned files
    pc,                 \* position of scan()
    i,                  \* scan(): index of filePath in javaFiles
    t,                  \* hasConfiguredInterface: index of targetInterface
    hasAnnotationMatch, \* scan(): hasAnnotationMatch
    hasInterfaceMatch,  \* scan(): hasInterfaceMatch
    stack,              \* call stack of implementsTargetInterface
    visited,            \* the visited set shared by one top-level call
    lastLookup,         \* last findClassDeclaration call and its result
    lastTop,            \* last top-level implementsTargetInterface call
    reentered,          \* the current top-level call hit a visited name
    decided             \* paths for which a match decision has been taken

vars == <<javaFiles, fileSrc, astShape, config, parsedFiles, parseCount,
          matchedFiles, files, pc, i, t, hasAnnotationMatch,
          hasInterfaceMatch, stack, visited, lastLookup, lastTop, reentered,
          decided>>

Paths == 1..MaxFiles

----------------------------------------------------------------------------
(* Sequence helpers *)

Last(s) == s[Len(s)]

Front(s) == SubSeq(s, 1, Len(s) - 1)

Range(s) == {s[k] : k \in 1..Len(s)}

Includes(s, x) == \E k \in 1..Len(s) : s[k] = x

RECURSIVE Concat(_)
Concat(ss) == IF Len(ss) = 0 THEN <<>> ELSE Head(ss) \o Concat(Tail(ss))

sortPaths(s) ==
    CHOOSE r \in [1..Len(s) -> Range(s)] :
        /\ \A k \in 1..Len(s) : \E m \in 1..Len(s) : r[m] = s[k]
        /\ \A k \in 1..(Len(s) - 1) : r[k] <= r[k + 1]

Str(id) == <<id>>

----------------------------------------------------------------------------
(* The configuration: constructor, lines 17-24 *)

annotations == config.annotations

interfaces == config.interfaces

excludeAbstract == config.excludeAbstract # "false"

----------------------------------------------------------------------------
(* The syntax tree java-parser returns for a file *)

\* typeName node of a written name: Identifier holds the images of
\* children.Identifier, packageOrTypeName those of
\* children.packageOrTypeName[0].children.Identifier; <<>> is "absent".
parseTypeName(ref) ==
    IF Len(ref) = 1
    THEN [Identifier |-> ref, packageOrTypeName |-> <<>>]
    ELSE CASE astShape = "flat" ->
                [Identifier |-> ref, packageOrTypeName |-> <<>>]
           [] astShape = "qualifier" ->
                [Identifier |-> <<Last(ref)>>, packageOrTypeName |-> Front(ref)]
           [] astShape = "dotted" ->
                [Identifier |-> <<>>, packageOrTypeName |-> ref]

\* the modifiers as written: the annotations, then the abstract keyword
parseModifiers(src) ==
    [a \in 1..Len(src.annotations) |->
          [abstractKeyword |-> FALSE,
           annotation |-> <<[typeName |-> <<parseTypeName(src.annotations[a])>>]>>]]
    \o (IF src.abstract
        THEN <<[abstractKeyword |-> TRUE, annotation |-> <<>>]>>
        ELSE <<>>)

parseTypeList(refs) ==
    [r \in 1..Len(refs) |-> [typeName |-> <<parseTypeName(refs[r])>>]]

\* parse(code): the first type declaration of the compilation unit.  A class
\* declaration carries classModifier and normalClassDeclaration; an
\* interface declaration carries its modifiers under another child and
\* normalInterfaceDeclaration; an enum is a class declaration without
\* normalClassDeclaration.
parse(src) ==
    CASE src.kind = "class" ->
           [typeDeclaration |-> <<
              [classModifier |-> parseModifiers(src),
               normalClassDeclaration |->
                  <<[typeIdentifier |-> Str(src.name),
                     classImplements |-> parseTypeList(src.refs)]>>,
               normalInterfaceDeclaration |-> <<>>]>>]
      [] src.kind = "interface" ->
           [typeDeclaration |-> <<
              [classModifier |-> <<>>,
               normalClassDeclaration |-> <<>>,
               normalInterfaceDeclaration |->
                  <<[typeIdentifier |-> Str(src.name),
                     interfaceExtends |-> parseTypeList(src.refs)]>>]>>]
      [] src.kind = "enum" ->
           [typeDeclaration |-> <<
              [classModifier |-> parseModifiers(src),
               normalClassDeclaration |-> <<>>,
               normalInterfaceDeclaration |-> <<>>]>>]
      [] OTHER -> [typeDeclaration |-> <<>>]

----------------------------------------------------------------------------
(* AST Adapter and Type Extractor *)

\* parseJavaFile without this.parsedFiles.set(filePath, ast)
parseJavaFileNoSet(filePath, cache) ==
    IF filePath \in cache
    THEN [ast |-> TRUE, cache |-> cache, invoked |-> FALSE]
    ELSE [ast |-> fileSrc[filePath].ok, cache |-> cache, invoked |-> TRUE]

\* parseJavaFile: ast is FALSE for the null the catch branch returns
parseJavaFile(filePath, cache) ==
    IF filePath \in cache
    THEN [ast |-> TRUE, cache |-> cache, invoked |-> FALSE]
    ELSE IF fileSrc[filePath].ok
         THEN [ast |-> TRUE, cache |-> cache \cup {filePath}, invoked |-> TRUE]
         ELSE [ast |-> FALSE, cache |-> cache, invoked |-> TRUE]

\* getTypeName: <<>> stands for null
getTypeName(node) ==
    IF Len(node.normalClassDeclaration) > 0
    THEN node.normalClassDeclaration[1].typeIdentifier
    ELSE IF Len(node.normalInterfaceDeclaration) > 0
         THEN node.normalInterfaceDeclaration[1].typeIdentifier
         ELSE <<>>

\* isAbstract returning from the loop on the first modifier
isAbstractFirstModifier(node) ==
    IF Len(node.classModifier) = 0
    THEN FALSE
    ELSE node.classModifier[1].abstractKeyword

isAbstract(node) ==
    IF Len(node.classModifier) = 0
    THEN FALSE
    ELSE \E m \in 1..Len(node.classModifier) :
            node.classModifier[m].abstractKeyword

\* the names pushed for one annotation or interfaceType node
\* (lines 110-123, 144-155, 173-184)
typeNameRefs(n) ==
    IF Len(n.typeName) = 0
    THEN <<>>
    ELSE LET typeName == n.typeName[1]
         IN (IF Len(typeName.Identifier) > 0
             THEN <<Str(typeName.Identifier[1])>>
             ELSE <<>>)
            \o (IF Len(typeName.packageOrTypeName) > 0
                THEN <<typeName.packageOrTypeName>>
                ELSE <<>>)

getAnnotations(node) ==
    Concat([m \in 1..Len(node.classModifier) |->
              Concat([a \in 1..Len(node.classModifier[m].annotation) |->
                        typeNameRefs(node.classModifier[m].annotation[a])])])

getImplementedInterfaces(node) ==
    IF Len(node.normalClassDeclaration) = 0
    THEN <<>>
    ELSE LET interfaceList == node.normalClassDeclaration[1].classImplements
         IN Concat([k \in 1..Len(interfaceList) |-> typeNameRefs(interfaceList[k])])

getExtendedInterfaces(node) ==
    IF Len(node.normalInterfaceDeclaration) = 0
    THEN <<>>
    ELSE LET interfaceList == node.normalInterfaceDeclaration[1].interfaceExtends
         IN Concat([k \in 1..Len(interfaceList) |-> typeNameRefs(interfaceList[k])])

\* getTypeDeclaration: a sequence of zero (null) or one node
getTypeDeclaration(ast) == ast.typeDeclaration

typeNodeOf(filePath) == getTypeDeclaration(parse(fileSrc[filePath]))[1]

----------------------------------------------------------------------------
(* Symbol lookup *)

\* the for loop of findClassDeclaration from index j on
RECURSIVE findLoop(_, _, _, _)
findLoop(className, j, cache, count) ==
    IF j > Len(javaFiles)
    THEN [path |-> 0, cache |-> cache, count |-> count]
    ELSE LET filePath == javaFiles[j]
             r == parseJavaFile(filePath, cache)
             count2 == IF r.invoked
                       THEN [count EXCEPT ![filePath] = @ + 1]
                       ELSE count
         IN IF ~r.ast
            THEN findLoop(className, j + 1, r.cache, count2)
            ELSE LET typeDecl == getTypeDeclaration(parse(fileSrc[filePath]))
                 IN IF Len(typeDecl) = 0
                    THEN findLoop(className, j + 1, r.cache, count2)
                    ELSE IF getTypeName(typeDecl[1]) = className
                         THEN [path |-> filePath, cache |-> r.cache, count |-> count2]
                         ELSE findLoop(className, j + 1, r.cache, count2)

findClassDeclaration(className, cache, count) == findLoop(className, 1, cache, count)

----------------------------------------------------------------------------
(* Interface Graph Resolver and Annotation Matcher *)

\* nodeKey that never uses the type name
nodeKeyUnknown(node) == Str("unknown")

\* nodeKey = `${typeName || 'unknown'}`
nodeKey(node) ==
    IF Len(getTypeName(node)) = 0 THEN Str("unknown") ELSE getTypeName(node)

\* the visited check left out
visitedHasNever(vis, key) == FALSE

\* visited.has(nodeKey)
visitedHas(vis, key) == key \in vis

\* hasConfiguredAnnotation comparing with the last configured name only
hasConfiguredAnnotationLast(node, anns) ==
    IF Len(anns) = 0
    THEN FALSE
    ELSE LET nodeAnnotations == getAnnotations(node)
         IN \E k \in 1..Len(nodeAnnotations) :
               \/ nodeAnnotations[k] = Str(Last(Last(anns)))
               \/ nodeAnnotations[k] = Last(anns)

hasConfiguredAnnotation(node, anns) ==
    IF Len(anns) = 0
    THEN FALSE
    ELSE LET nodeAnnotations == getAnnotations(node)
             simpleAnnotationNames == [k \in 1..Len(anns) |-> Str(Last(anns[k]))]
         IN \E k \in 1..Len(nodeAnnotations) :
               \/ Includes(simpleAnnotationNames, nodeAnnotations[k])
               \/ Includes(anns, nodeAnnotations[k])

NoCount == [p \in Paths |-> 0]

\* implementsTargetInterface as a function of the declaration's file: the
\* result and the visited set after the call
RECURSIVE implementsTargetInterface(_, _, _)
RECURSIVE implementedLoop(_, _, _, _)
implementsTargetInterface(filePath, target, vis) ==
    LET node == typeNodeOf(filePath)
        key == nodeKey(node)
    IN IF visitedHas(vis, key)
       THEN [result |-> FALSE, visited |-> vis]
       ELSE LET implemented == getImplementedInterfaces(node)
            IN IF Includes(implemented, target)
               THEN [result |-> TRUE, visited |-> vis \cup {key}]
               ELSE implementedLoop(implemented, 1, target, vis \cup {key})

\* the for loop over implemented from index k on
implementedLoop(implemented, k, target, vis) ==
    IF k > Len(implemented)
    THEN [result |-> FALSE, visited |-> vis]
    ELSE LET ifaceDecl == findClassDeclaration(implemented[k], {}, NoCount)
         IN IF ifaceDecl.path # 0
            THEN LET r == implementsTargetInterface(ifaceDecl.path, target, vis)
                 IN IF r.result
                    THEN r
                    ELSE implementedLoop(implemented, k + 1, target, r.visited)
            ELSE implementedLoop(implemented, k + 1, target, vis)

hasConfiguredInterface(filePath, ifaces) ==
    IF Len(ifaces) = 0
    THEN FALSE
    ELSE \E k \in 1..Len(ifaces) :
            implementsTargetInterface(filePath, ifaces[k], {}).result

\* the set of paths scan() returns under configuration cfg
scan(cfg) ==
    {filePath \in Range(javaFiles) :
        /\ fileSrc[filePath].ok
        /\ LET typeDecl == getTypeDeclaration(parse(fileSrc[filePath]))
           IN /\ Len(typeDecl) > 0
              /\ ~(cfg.excludeAbstract # "false" /\ isAbstract(typeDecl[1]))
              /\ \/ hasConfiguredAnnotation(typeDecl[1], cfg.annotations)
                 \/ hasConfiguredInterface(filePath, cfg.interfaces)}

----------------------------------------------------------------------------
(* scan(), lines 299-331, one action per step of the loop body *)

Top == stack[Len(stack)]

targetInterface == interfaces[t]

\* return false from the call on top of the stack
ReturnFalse(re) ==
    /\ reentered' = re
    /\ IF Len(stack) = 1
       THEN /\ stack' = <<>>
            /\ lastTop' = [file |-> stack[1].path, target |-> targetInterface,
                           result |-> FALSE, reentered |-> re]
            /\ t' = t + 1
            /\ pc' = "iface"
       ELSE /\ stack' = [Front(stack) EXCEPT ![Len(stack) - 1].k = @ + 1]
            /\ UNCHANGED <<lastTop, t, pc>>
    /\ UNCHANGED hasInterfaceMatch

\* return true: every caller on the stack returns true in turn
ReturnTrue ==
    /\ stack' = <<>>
    /\ lastTop' = [file |-> stack[1].path, target |-> targetInterface,
                   result |-> TRUE, reentered |-> reentered]
    /\ hasInterfaceMatch' = TRUE
    /\ pc' = "decide"
    /\ UNCHANGED <<t, reentered>>

\* const ast = this.parseJavaFile(filePath); if (!ast) continue;
ScanParse ==
    /\ pc = "loop"
    /\ i <= Len(javaFiles)
    /\ LET r == parseJavaFile(javaFiles[i], parsedFiles)
       IN /\ parsedFiles' = r.cache
          /\ parseCount' = IF r.invoked
                           THEN [parseCount EXCEPT ![javaFiles[i]] = @ + 1]
                           ELSE parseCount
          /\ IF r.ast
             THEN pc' = "classify" /\ i' = i
             ELSE pc' = "loop" /\ i' = i + 1
    /\ UNCHANGED <<javaFiles, fileSrc, astShape, config, matchedFiles, files,
                   t, hasAnnotationMatch, hasInterfaceMatch, stack, visited,
                   lastLookup, lastTop, reentered, decided>>

\* getTypeDeclaration, the abstract check and hasConfiguredAnnotation
ScanClassify ==
    /\ pc = "classify"
    /\ LET typeDecl == getTypeDeclaration(parse(fileSrc[javaFiles[i]]))
       IN IF Len(typeDecl) = 0
          THEN /\ pc' = "loop" /\ i' = i + 1
               /\ UNCHANGED <<hasAnnotationMatch, t, decided>>
          ELSE IF excludeAbstract /\ isAbstract(typeDecl[1])
               THEN /\ pc' = "loop" /\ i' = i + 1
                    /\ UNCHANGED <<hasAnnotationMatch, t, decided>>
               ELSE /\ hasAnnotationMatch' =
                          hasConfiguredAnnotation(typeDecl[1], annotations)
                    /\ decided' = decided \cup {javaFiles[i]}
                    /\ t' = 1
                    /\ pc' = "iface"
                    /\ i' = i
    /\ UNCHANGED <<javaFiles, fileSrc, astShape, config, parsedFiles,
                   parseCount, matchedFiles, files, hasInterfaceMatch, stack,
                   visited, lastLookup, lastTop, reentered>>

\* hasConfiguredInterface: the head of the loop over this.interfaces
NextTarget ==
    /\ pc = "iface"
    /\ IF Len(interfaces) = 0 \/ t > Len(interfaces)
       THEN /\ hasInterfaceMatch' = FALSE
            /\ pc' = "decide"
            /\ UNCHANGED <<stack, visited, reentered>>
       ELSE /\ stack' = <<[path |-> javaFiles[i], k |-> 0]>>
            /\ visited' = {}
            /\ reentered' = FALSE
            /\ pc' = "resolve"
            /\ UNCHANGED hasInterfaceMatch
    /\ UNCHANGED <<javaFiles, fileSrc, astShape, config, parsedFiles,
                   parseCount, matchedFiles, files, i, t, hasAnnotationMatch,
                   lastLookup, lastTop, decided>>

\* implementsTargetInterface, lines 226-237: the visited check and the
\* direct check
Enter ==
    /\ pc = "resolve"
    /\ Top.k = 0
    /\ LET node == typeNodeOf(Top.path)
           key == nodeKey(node)
       IN IF visitedHas(visited, key)
          THEN ReturnFalse(TRUE) /\ UNCHANGED visited
          ELSE /\ visited' = visited \cup {key}
               /\ IF Includes(getImplementedInterfaces(node), targetInterface)
                  THEN ReturnTrue
                  ELSE /\ stack' = [stack EXCEPT ![Len(stack)].k = 1]
                       /\ UNCHANGED <<lastTop, t, pc, hasInterfaceMatch,
                                      reentered>>
    /\ UNCHANGED <<javaFiles, fileSrc, astShape, config, parsedFiles,
                   parseCount, matchedFiles, files, i, hasAnnotationMatch,
                   lastLookup, decided>>

\* implementsTargetInterface, lines 240-247: one iteration of the loop over
\* implemented, up to the recursive call
Lookup ==
    /\ pc = "resolve"
    /\ Top.k >= 1
    /\ Len(stack) < MaxDepth
    /\ LET implemented == getImplementedInterfaces(typeNodeOf(Top.path))
       IN /\ Top.k <= Len(implemented)
          /\ LET ifaceName == implemented[Top.k]
                 ifaceDecl == findClassDeclaration(ifaceName, parsedFiles, parseCount)
             IN /\ parsedFiles' = ifaceDecl.cache
                /\ parseCount' = ifaceDecl.count
                /\ lastLookup' = [name |-> ifaceName, path |-> ifaceDecl.path]
                /\ IF ifaceDecl.path # 0
                   THEN stack' = Append(stack, [path |-> ifaceDecl.path, k |-> 0])
                   ELSE stack' = [stack EXCEPT ![Len(stack)].k = @ + 1]
    /\ UNCHANGED <<javaFiles, fileSrc, astShape, config, matchedFiles, files,
                   pc, i, t, hasAnnotationMatch, hasInterfaceMatch, visited,
                   lastTop, reentered, decided>>

\* implementsTargetInterface, line 249: the loop is exhausted
LoopEnd ==
    /\ pc = "resolve"
    /\ Top.k >= 1
    /\ Top.k > Len(getImplementedInterfaces(typeNodeOf(Top.path)))
    /\ ReturnFalse(reentered)
    /\ UNCHANGED <<javaFiles, fileSrc, astShape, config, parsedFiles,
                   parseCount, matchedFiles, files, i, hasAnnotationMatch,
                   visited, lastLookup, decided>>

\* if (hasAnnotationMatch || hasInterfaceMatch) matchedFiles.push(filePath)
ScanDecide ==
    /\ pc = "decide"
    /\ matchedFiles' = IF hasAnnotationMatch \/ hasInterfaceMatch
                       THEN Append(matchedFiles, javaFiles[i])
                       ELSE matchedFiles
    /\ i' = i + 1
    /\ pc' = "loop"
    /\ UNCHANGED <<javaFiles, fileSrc, astShape, config, parsedFiles,
                   parseCount, files, t, hasAnnotationMatch, hasInterfaceMatch,
                   stack, visited, lastLookup, lastTop, reentered, decided>>

\* return { count: matchedFiles.length, files: matchedFiles.sort() }
ScanReturn ==
    /\ pc = "loop"
    /\ i > Len(javaFiles)
    /\ files' = sortPaths(matchedFiles)
    /\ pc' = "done"
    /\ UNCHANGED <<javaFiles, fileSrc, astShape, config, parsedFiles,
                   parseCount, matchedFiles, i, t, hasAnnotationMatch,
                   hasInterfaceMatch, stack, visited, lastLookup, lastTop,
                   reentered, decided>>

Next ==
    \/ ScanParse
    \/ ScanClassify
    \/ NextTarget
    \/ Enter
    \/ Lookup
    \/ LoopEnd
    \/ ScanDecide
    \/ ScanReturn

----------------------------------------------------------------------------
(* The inputs: file sets, walk orders and configurations *)

Name(p) == <<"A", "B", "C", "D", "E", "F">>[p]

T == Str("T")

S == Str("S")

Src(ok, kind, name, abstract, anns, refs) ==
    [ok |-> ok, kind |-> kind, name |-> name, abstract |-> abstract,
     annotations |-> anns, refs |-> refs]

Cfg(anns, ifaces, excl) ==
    [annotations |-> anns, interfaces |-> ifaces, excludeAbstract |-> excl]

Perms == {s \in [Paths -> Paths] : \A a, b \in Paths : s[a] = s[b] => a = b}

Sorted == [p \in Paths |-> p]

Nx(p) == Str(Name((p % MaxFiles) + 1))

Ny(p) == Str(Name(((p + 1) % MaxFiles) + 1))

\* state of a freshly constructed scanner before scan() runs
Fresh ==
    /\ parsedFiles = {}
    /\ parseCount = [p \in Paths |-> 0]
    /\ matchedFiles = <<>>
    /\ files = <<>>
    /\ pc = "loop"
    /\ i = 1
    /\ t = 1
    /\ hasAnnotationMatch = FALSE
    /\ hasInterfaceMatch = FALSE
    /\ stack = <<>>
    /\ visited = {}
    /\ lastLookup = [name |-> <<>>, path |-> 0]
    /\ lastTop = [file |-> 0, target |-> <<>>, result |-> FALSE, reentered |-> FALSE]
    /\ reentered = FALSE
    /\ decided = {}

\* reference graphs: classes and interfaces with distinct names
GraphRefs(p, c) ==
    CASE c = 1 -> <<>>
      [] c = 2 -> <<T>>
      [] c = 3 -> <<Nx(p)>>
      [] c = 4 -> <<Ny(p)>>
      [] c = 5 -> <<Nx(p), Ny(p)>>

\* choices 1..5 are classes, 6..8 interfaces
GraphFile(p, c) ==
    IF c <= 5
    THEN Src(TRUE, "class", Name(p), FALSE, <<>>, GraphRefs(p, c))
    ELSE Src(TRUE, "interface", Name(p), FALSE, <<>>, GraphRefs(p, c - 5))

GraphConfigs ==
    {Cfg(<<>>, <<Str(Name(3))>>, "unset"),
     Cfg(<<>>, <<Str("U"), T>>, "unset")}

GraphInit(cfgs, choices) ==
    /\ javaFiles = Sorted
    /\ astShape = "flat"
    /\ \E ch \in [Paths -> choices] : fileSrc = [p \in Paths |-> GraphFile(p, ch[p])]
    /\ config \in cfgs
    /\ Fresh

InitGraph == GraphInit(GraphConfigs, 1..8)

\* several files declaring one simple name, every walk order
DupFile(c) ==
    CASE c = 1 -> Src(TRUE, "class", "A", FALSE, <<>>, <<Str("B")>>)
      [] c = 2 -> Src(TRUE, "class", "B", FALSE, <<>>, <<T>>)
      [] c = 3 -> Src(TRUE, "class", "B", FALSE, <<>>, <<>>)
      [] c = 4 -> Src(TRUE, "interface", "B", FALSE, <<>>, <<>>)

InitDup ==
    /\ javaFiles \in Perms
    /\ astShape = "flat"
    /\ \E ch \in [Paths -> 1..4] : fileSrc = [p \in Paths |-> DupFile(ch[p])]
    /\ config = Cfg(<<>>, <<T>>, "unset")
    /\ Fresh

\* unparsable files, files without a type, enums, abstract and annotated types
KindFile(p, c) ==
    CASE c = 1 -> Src(FALSE, "class", Name(p), FALSE, <<S>>, <<T>>)
      [] c = 2 -> Src(TRUE, "none", Name(p), FALSE, <<>>, <<>>)
      [] c = 3 -> Src(TRUE, "enum", Name(p), FALSE, <<S>>, <<>>)
      [] c = 4 -> Src(TRUE, "class", Name(p), TRUE, <<S>>, <<T>>)
      [] c = 5 -> Src(TRUE, "class", Name(p), FALSE, <<S>>, <<>>)
      [] c = 6 -> Src(TRUE, "class", Name(p), FALSE, <<Str("R")>>, <<Nx(p)>>)
      [] c = 7 -> Src(TRUE, "interface", Name(p), TRUE, <<S>>, <<T>>)

KindConfigs ==
    {Cfg(<<S>>, <<T>>, "unset"),
     Cfg(<<S>>, <<>>, "true"),
     Cfg(<<>>, <<T>>, "false"),
     Cfg(<<>>, <<>>, "unset")}

InitKind ==
    /\ javaFiles = Sorted
    /\ astShape = "flat"
    /\ \E ch \in [Paths -> 1..7] : fileSrc = [p \in Paths |-> KindFile(p, ch[p])]
    /\ config \in KindConfigs
    /\ Fresh

\* bare and dotted names on one declaration, every tree layout
AnnRefs ==
    {<<>>, <<S>>, <<<<"p", "S">>>>, <<<<"q", "S">>>>, <<<<"S", "R">>>>,
     <<Str("R")>>, <<Str("R"), S>>}

AnnConfigs ==
    {<<S>>, <<<<"p", "S">>>>, <<Str("R")>>, <<<<"q", "R">>, <<"p", "S">>>>}

IfaceRefs == {<<>>, <<T>>, <<<<"p", "T">>>>}

IfaceConfigs == {<<>>, <<T>>, <<<<"p", "T">>>>}

InitName ==
    /\ javaFiles = Sorted
    /\ astShape \in {"flat", "qualifier", "dotted"}
    /\ \E kind \in {"class", "interface"}, anns \in AnnRefs, refs \in IfaceRefs :
          fileSrc = [p \in Paths |->
                       IF p = 1
                       THEN Src(TRUE, kind, Name(1), FALSE, anns, refs)
                       ELSE Src(TRUE, "class", Name(p), FALSE, <<>>, <<>>)]
    /\ \E anns \in AnnConfigs, ifaces \in IfaceConfigs :
          config = Cfg(anns, ifaces, "unset")
    /\ Fresh

Init == InitGraph \/ InitDup \/ InitKind \/ InitName

Spec == Init /\ [][Next]_vars

\* the reference graphs of classes, with or without a plain interface;
\* scan() is one sequential run, so a step that can be taken is taken
FairInit == GraphInit({Cfg(<<>>, <<T>>, "unset")}, 1..6)

FairSpec == FairInit /\ [][Next]_vars /\ WF_vars(Next)

----------------------------------------------------------------------------
(* Definitions used to state the properties *)

\* the file holds a class or interface declaration the scanner can read
Declares(p) == fileSrc[p].ok /\ fileSrc[p].kind \in {"class", "interface"}

\* the files declaring a simple name
DeclNamed(name) == {p \in Paths : Declares(p) /\ Str(fileSrc[p].name) = name}

DistinctNames ==
    \A p, q \in Paths :
        (fileSrc[p].ok /\ fileSrc[q].ok /\ fileSrc[p].kind # "none"
         /\ fileSrc[q].kind # "none" /\ fileSrc[p].name = fileSrc[q].name)
        => p = q

\* the references the resolver reads on the declaration of p
RefsRead(p) == Range(getImplementedInterfaces(typeNodeOf(p)))

RECURSIVE Closure(_)
Closure(ps) ==
    LET more == ps \cup UNION {DeclNamed(n) : n \in UNION {RefsRead(q) : q \in ps}}
    IN IF more = ps THEN ps ELSE Closure(more)

ReachesTarget(p, target) == \E q \in Closure({p}) : target \in RefsRead(q)

MinOf(ps) == CHOOSE p \in ps : \A q \in ps : p <= q

\* the model agrees with itself: the step machine and the function form
ModelAgrees ==
    /\ Len(stack) <= MaxFiles + 1
    /\ pc = "done" => Range(files) = scan(config)
    /\ lastTop.file # 0 =>
          lastTop.result =
             implementsTargetInterface(lastTop.file, lastTop.target, {}).result

----------------------------------------------------------------------------
(* Properties *)

\* C1: with interface Base, interface Mid extends Base and a non-abstract
\* class Impl implements Mid, each in its own file, a scan configured with
\* interfaces = [Base] and no annotations returns the file of Impl.
C1_TransitiveChainMatched ==
    (pc = "done" /\ Len(annotations) = 0 /\ Len(interfaces) = 1)
    => \A impl, mid, base \in Paths :
          (/\ Declares(impl) /\ Declares(mid) /\ Declares(base)
           /\ fileSrc[impl].kind = "class" /\ ~fileSrc[impl].abstract
           /\ fileSrc[mid].kind = "interface"
           /\ fileSrc[base].kind = "interface"
           /\ DistinctNames
           /\ interfaces[1] = Str(fileSrc[base].name)
           /\ fileSrc[impl].refs = <<Str(fileSrc[mid].name)>>
           /\ Includes(getExtendedInterfaces(typeNodeOf(mid)), interfaces[1]))
          => impl \in Range(files)

\* C2: when excludeAbstract is true or unset, no file that scan() has matched
\* or returned has a first declaration carrying the abstract modifier.
C2_NoAbstractInResult ==
    excludeAbstract =>
        \A p \in Range(matchedFiles) \cup Range(files) : ~fileSrc[p].abstract

C2_Witness ==
    /\ pc = "done"
    /\ config.excludeAbstract = "unset"
    /\ files # <<>>
    /\ \E p \in Paths :
          /\ fileSrc[p].ok /\ fileSrc[p].kind = "class" /\ fileSrc[p].abstract
          /\ hasConfiguredAnnotation(typeNodeOf(p), annotations)
          /\ Includes(fileSrc[p].refs, interfaces[1])
          /\ p \notin Range(files)

\* C3: for a class declaration, hasConfiguredAnnotation is true exactly when
\* some annotation written on the declaration and some configured name have
\* the same trailing component or the same full text.
C3_AnnotationRule ==
    (pc = "iface" /\ fileSrc[javaFiles[i]].kind = "class")
    => (hasAnnotationMatch <=>
          \E c \in Range(annotations), r \in Range(fileSrc[javaFiles[i]].annotations) :
              Last(r) = Last(c) \/ r = c)

\* C4: a top-level implementsTargetInterface call returns true whenever a
\* reference in the implements list of the class, or in the extends list of
\* the interface, has the target as its simple name.
C4_DirectMatchBySimpleName ==
    (lastTop.file # 0 /\ fileSrc[lastTop.file].kind \in {"class", "interface"})
    => ((\E r \in Range(fileSrc[lastTop.file].refs) : Str(Last(r)) = lastTop.target)
        => lastTop.result)

\* C5: findClassDeclaration yields the declaration from the smallest path
\* among the files declaring the name, whatever the walk order, and null
\* when no file declares it.
C5_SmallestPathWins ==
    lastLookup.name # <<>>
    => lastLookup.path = IF DeclNamed(lastLookup.name) = {}
                         THEN 0
                         ELSE MinOf(DeclNamed(lastLookup.name))

\* C8: during one scan() the parser is invoked at most once for each path,
\* also for a path whose parse fails.
C8_ParsedAtMostOnce == \A p \in Paths : parseCount[p] <= 1

\* C9 as stated: once a match decision has been taken, every discovered file
\* has been parsed.
C9_IndexBeforeClassification ==
    decided # {} => \A p \in Range(javaFiles) : parseCount[p] >= 1

\* C9 as amended: a file is parsed and held in the AST cache before the
\* classifier decides on its declaration and before the resolver reads its
\* declaration.
C9_ParsedBeforeUse ==
    /\ pc \in {"classify", "iface", "resolve", "decide"}
          => javaFiles[i] \in parsedFiles /\ parseCount[javaFiles[i]] = 1
    /\ \A k \in 1..Len(stack) : stack[k].path \in parsedFiles
    /\ decided \cup Range(matchedFiles) \subseteq parsedFiles

C9_Witness ==
    /\ pc = "decide"
    /\ i = 1
    /\ javaFiles[1] \in decided
    /\ \E p \in Paths : parseCount[p] = 0 /\ fileSrc[p].ok
    /\ \E p \in Paths : p # javaFiles[1] /\ p \in parsedFiles

\* C10: when the declared names are pairwise distinct, a top-level
\* implementsTargetInterface call returns true exactly when a declaration
\* reachable from the starting one, through the references the resolver
\* reads, lists the target directly.
C10_VisitedLosesNoAnswer ==
    (lastTop.file # 0 /\ DistinctNames)
    => (lastTop.result <=> ReachesTarget(lastTop.file, lastTop.target))

C10_Witness ==
    /\ DistinctNames
    /\ lastTop.file # 0
    /\ lastTop.reentered
    /\ lastTop.result
    /\ lastTop.target \notin RefsRead(lastTop.file)

\* names that may be added to a configured list
ExtraNames == {S, T, Str("R"), Str("U"), <<"p", "S">>, <<"p", "T">>, Str(Name(3))}

\* the lists obtained from list by adding the entry e at any position
AddEntry(list, e) ==
    {SubSeq(list, 1, k) \o <<e>> \o SubSeq(list, k + 1, Len(list)) : k \in 0..Len(list)}

\* the results of scan() under the configurations with one more annotation
MoreAnnotations ==
    {scan([config EXCEPT !.annotations = l]) :
        l \in UNION {AddEntry(annotations, e) : e \in ExtraNames}}

\* the results of scan() under the configurations with one more interface
MoreInterfaces ==
    {scan([config EXCEPT !.interfaces = l]) :
        l \in UNION {AddEntry(interfaces, e) : e \in ExtraNames}}

\* C6: for a fixed file set and excludeAbstract, every file scan() returns
\* is also returned under a configuration with one more entry in annotations
\* or in interfaces.
C6_Monotone ==
    pc = "done" =>
        \A more \in MoreAnnotations \cup MoreInterfaces : Range(files) \subseteq more

C6_Witness ==
    /\ pc = "done"
    /\ files # <<>>
    /\ Len(annotations) > 0
    /\ Len(interfaces) > 0
    /\ \E more \in MoreAnnotations : more # Range(files)
    /\ \E more \in MoreInterfaces : more # Range(files)

\* two declarations that reference each other and nothing else, x being the
\* one the last top-level call started from
CycleCase(x, y) ==
    /\ x # y
    /\ lastTop.file = x
    /\ DeclNamed(Str(fileSrc[x].name)) = {x}
    /\ DeclNamed(Str(fileSrc[y].name)) = {y}
    /\ fileSrc[x].refs = <<Str(fileSrc[y].name)>>
    /\ fileSrc[y].refs = <<Str(fileSrc[x].name)>>
    /\ lastTop.target \notin {Str(fileSrc[x].name), Str(fileSrc[y].name)}

\* C7: every top-level implementsTargetInterface call terminates; during
\* the call the visited set only grows and a call on a visited name returns
\* at once; for two declarations referencing each other the call returns
\* false for a target neither of them lists.
C7_CycleTermination ==
    /\ (pc = "resolve") ~> (pc # "resolve")
    /\ [][(pc = "resolve" /\ pc' = "resolve") => visited \subseteq visited']_vars
    /\ [][(pc = "resolve" /\ Top.k = 0
           /\ nodeKey(typeNodeOf(Top.path)) \in visited)
          => Len(stack') < Len(stack)]_vars
    /\ [](\A x, y \in Paths : CycleCase(x, y) => ~lastTop.result)

C7_Witness ==
    /\ lastTop.reentered
    /\ ~lastTop.result
    /\ \E x, y \in Paths :
          /\ CycleCase(x, y)
          /\ fileSrc[x].kind = "class"
          /\ fileSrc[y].kind = "class"

====
